---- MODULE Spec2Model ----
(***************************************************************************)
(* The DuckDuckGo search tool server: the tool-invocation handler and the  *)
(* fetch-paginate-extract loop searchDuckDuckGo, in the three              *)
(* implementations the repository holds:                                   *)
(*   "navbutton"  index.ts lines 1-220   (next page found by its button)   *)
(*   "lastform"   index.ts lines 222-424 (next page = last matching form)  *)
(*   "single"     unnamed/part_000       (one request, no pagination)      *)
(*                                                                         *)
(* Text (a cell's text, a link's text) is a sequence of one-character      *)
(* strings so that trim() and the marker pattern are computed.  A          *)
(* JavaScript number n is held as the integer 2n ("num2"), so that the     *)
(* non-integer 2.5 is the value 5 and comparisons stay exact.              *)
(***************************************************************************)
EXTENDS Integers, Sequences, FiniteSets, TLC

VARIABLES
    impl,            \* which implementation serves the invocation
    request,         \* the tool invocation: request.params
    pc,              \* "idle" | "await" (suspended in axios.post) | "done"
    query,           \* searchDuckDuckGo's parameter query
    maxResults,      \* searchDuckDuckGo's parameter maxResults, as num2
    allResults,      \* the Map url -> SearchResult, in insertion order
    nextPageParams,  \* navbutton: the continuation parameters
    nextParams,      \* lastform: the hidden inputs of the last next form
    currentPage,     \* lastform: the page counter
    requests,        \* the form bodies posted to the search endpoint so far
    served,          \* the pages the endpoint has answered with so far
    failedAt,        \* 0, or the number of the page request that failed
    outcome,         \* how the handler ended
    second           \* a second invocation of the same server: its locals and history

vars == <<impl, request, pc, query, maxResults, allResults, nextPageParams,
          nextParams, currentPage, requests, served, failedAt, outcome, second>>

(***************************************************************************)
(* Bounds of the model.                                                    *)
(***************************************************************************)
MaxRows == 2

(***************************************************************************)
(* Program constants.                                                      *)
(***************************************************************************)
DefaultMaxResults == 30

MinMaxResults == 1

MaxMaxResults == 100

(***************************************************************************)
(* JavaScript values as they arrive in request.params.arguments.           *)
(***************************************************************************)
JsUndefined == [type |-> "undefined", str |-> "", num2 |-> 0]

JsString(s) == [type |-> "string", str |-> s, num2 |-> 0]

JsNumber(n) == [type |-> "number", str |-> "", num2 |-> 2 * n]

JsHalf(n2) == [type |-> "number", str |-> "", num2 |-> n2]

JsNull == [type |-> "object", str |-> "", num2 |-> 0]

(***************************************************************************)
(* Text helpers: String.prototype.trim and the pattern /^\d+\.$/.          *)
(***************************************************************************)
Whitespace == {" "}

Digits == {"0", "1", "2", "3", "4", "5", "6", "7", "8", "9"}

RECURSIVE TrimStart(_)
TrimStart(s) ==
    IF s # <<>> /\ Head(s) \in Whitespace THEN TrimStart(Tail(s)) ELSE s

RECURSIVE TrimEnd(_)
TrimEnd(s) ==
    IF s # <<>> /\ s[Len(s)] \in Whitespace
    THEN TrimEnd(SubSeq(s, 1, Len(s) - 1))
    ELSE s

Trim(s) == TrimEnd(TrimStart(s))

\* /^\d+\.$/.test(text): one or more digits, then a period, and nothing else
IsMarkerText(text) ==
    /\ Len(text) >= 2
    /\ text[Len(text)] = "."
    /\ \A i \in 1..(Len(text) - 1) : text[i] \in Digits

(***************************************************************************)
(* The markup of a response.  A page is its table rows in document order   *)
(* and its forms in document order.                                        *)
(*   row.firstCell    text of the row's first td                           *)
(*   row.link         where the row's a.result-link is: "none", "last"     *)
(*                    (inside the last td) or "inner" (in another td)      *)
(*   row.title        the link's text;  row.href  its href ("" = no href)  *)
(*   row.snippetCell  text of the row's td.result-snippet (<<>> = none)    *)
(*   row.linkText     the row holds a span.link-text                       *)
(*   form.navbutton   the form holds input.navbutton[value="Next Page >"]  *)
(*   form.nextClass   the form has class next_form                         *)
(*   form.action      the form's action attribute                          *)
(*   form.hidden      its input[type="hidden"] elements, in order          *)
(***************************************************************************)
Row(first, link, title, href, snip, lt) ==
    [firstCell |-> first, link |-> link, title |-> title, href |-> href,
     snippetCell |-> snip, linkText |-> lt]

Hidden(name, value) == [name |-> name, value |-> value, hasValue |-> TRUE]

Form(nav, cls, action, hidden) ==
    [navbutton |-> nav, nextClass |-> cls, action |-> action, hidden |-> hidden]

(***************************************************************************)
(* Form bodies and continuation parameters: maps from field name to value. *)
(***************************************************************************)
EmptyParams == [k \in {} |-> ""]

Assign(m, k, v) == [x \in (DOMAIN m) \cup {k} |-> IF x = k THEN v ELSE m[x]]

\* { ...a, ...b }: the keys of b overwrite those of a
Spread(a, b) ==
    [x \in (DOMAIN a) \cup (DOMAIN b) |-> IF x \in DOMAIN b THEN b[x] ELSE a[x]]

BaseParams(q) == Assign(Assign(EmptyParams, "q", q), "kl", "us-en")

\* the .each over the hidden inputs: name && typeof value === 'string'
RECURSIVE AssignHidden(_, _)
AssignHidden(params, hidden) ==
    IF hidden = <<>> THEN params
    ELSE LET input == Head(hidden)
         IN AssignHidden(
                IF input.name # "" /\ input.hasValue
                THEN Assign(params, input.name, input.value)
                ELSE params,
                Tail(hidden))

\* the body of the request of one loop iteration
FormData(im, q, npp, np) ==
    CASE im = "navbutton" -> npp
      [] im = "lastform"  -> Spread(BaseParams(q), np)
      [] OTHER            -> Assign(EmptyParams, "q", q)

(***************************************************************************)
(* The next-page form.                                                     *)
(***************************************************************************)
\* faulty variant of NextFormNav: any form is taken for the next-page form
NextFormAny(forms) == forms

HasNavButton(form) == form.navbutton

MatchesLastForm(form) == form.nextClass \/ form.action = "/lite/"

\* $('form:has(input.navbutton[value="Next Page >"])'): every such form
NextFormNav(forms) == SelectSeq(forms, HasNavButton)

\* $('form.next_form, form[action="/lite/"]').last(): the last one, if any
NextFormLast(forms) ==
    LET m == SelectSeq(forms, MatchesLastForm)
    IN IF m = <<>> THEN <<>> ELSE <<m[Len(m)]>>

\* .find('input[type="hidden"]') over the selected forms, in document order
RECURSIVE HiddenInputs(_)
HiddenInputs(forms) ==
    IF forms = <<>> THEN <<>> ELSE Head(forms).hidden \o HiddenInputs(Tail(forms))

(***************************************************************************)
(* Extraction of the results of one page.                                  *)
(***************************************************************************)
\* faulty variant of HasUrl: the Map is never found to hold the url
HasUrlNever(results, url) == FALSE

HasUrl(results, url) == \E i \in 1..Len(results) : results[i].url = url

\* the link the implementation looks at in a marker row
LinkFound(im, row) ==
    IF im = "lastform" THEN row.link = "last" ELSE row.link # "none"

RowTitle(im, row) == IF LinkFound(im, row) THEN Trim(row.title) ELSE <<>>

RowUrl(im, row) == IF LinkFound(im, row) THEN row.href ELSE ""

\* $row.next('tr').find('td.result-snippet').text().trim()
RowSnippet(rows, i) == IF i < Len(rows) THEN Trim(rows[i + 1].snippetCell) ELSE <<>>

\* faulty variant of ScanRow: allResults.set without the has(url) test, so a later
\* occurrence replaces the stored value (the key keeps its place in the Map)
ScanRowOverwrite(im, rows, i, st) ==
    LET row == rows[i]
        title == IF (IF im = "lastform" THEN row.link = "last" ELSE row.link # "none")
                 THEN Trim(row.title) ELSE <<>>
        url == IF (IF im = "lastform" THEN row.link = "last" ELSE row.link # "none")
               THEN row.href ELSE ""
        entry == [title |-> title, url |-> url,
                  snippet |-> IF i < Len(rows) THEN Trim(rows[i + 1].snippetCell)
                              ELSE <<>>]
    IN IF IsMarkerText(Trim(row.firstCell)) /\ title # <<>> /\ url # ""
       THEN [results |->
                 IF \E j \in 1..Len(st.results) : st.results[j].url = url
                 THEN [j \in 1..Len(st.results) |->
                          IF st.results[j].url = url THEN entry ELSE st.results[j]]
                 ELSE Append(st.results, entry),
             found |-> TRUE]
       ELSE st

\* faulty variant of ScanRow: foundNewResults is set for a candidate the Map
\* already holds
ScanRowFoundAnyway(im, rows, i, st) ==
    LET row == rows[i]
        title == IF (IF im = "lastform" THEN row.link = "last" ELSE row.link # "none")
                 THEN Trim(row.title) ELSE <<>>
        url == IF (IF im = "lastform" THEN row.link = "last" ELSE row.link # "none")
               THEN row.href ELSE ""
    IN IF IsMarkerText(Trim(row.firstCell)) /\ title # <<>> /\ url # ""
       THEN [results |->
                 IF \E j \in 1..Len(st.results) : st.results[j].url = url
                 THEN st.results
                 ELSE Append(st.results,
                          [title |-> title, url |-> url,
                           snippet |-> IF i < Len(rows)
                                       THEN Trim(rows[i + 1].snippetCell) ELSE <<>>]),
             found |-> TRUE]
       ELSE st

\* the body of $('tr').each for row i; st = [results, found]
ScanRow(im, rows, i, st) ==
    LET row == rows[i]
        title == RowTitle(im, row)
        url == RowUrl(im, row)
    IN IF /\ IsMarkerText(Trim(row.firstCell))
          /\ title # <<>>
          /\ url # ""
          /\ ~HasUrl(st.results, url)
       THEN [results |-> Append(st.results,
                 [title |-> title, url |-> url, snippet |-> RowSnippet(rows, i)]),
             found |-> TRUE]
       ELSE st

\* faulty variant of ScanRows: the scan of a page ends at the first marker row
\* that gives no result
RECURSIVE ScanRowsUntilSkip(_, _, _, _)
ScanRowsUntilSkip(im, rows, i, st) ==
    IF i > Len(rows) THEN st
    ELSE IF IsMarkerText(Trim(rows[i].firstCell)) /\ ScanRow(im, rows, i, st) = st
    THEN st
    ELSE ScanRowsUntilSkip(im, rows, i + 1, ScanRow(im, rows, i, st))

RECURSIVE ScanRows(_, _, _, _)
ScanRows(im, rows, i, st) ==
    IF i > Len(rows) THEN st ELSE ScanRows(im, rows, i + 1, ScanRow(im, rows, i, st))

\* part_000: every row with a result link and a link-text span is pushed
PushRow(row, results) ==
    IF row.link # "none" /\ row.linkText
    THEN Append(results, [title |-> Trim(row.title), url |-> row.href])
    ELSE results

RECURSIVE PushRows(_, _, _)
PushRows(rows, i, results) ==
    IF i > Len(rows) THEN results ELSE PushRows(rows, i + 1, PushRow(rows[i], results))

(***************************************************************************)
(* Numbers: a size against maxResults, and Array.prototype.slice(0, end).  *)
(***************************************************************************)
\* faulty variant of SizeBelow: a full accumulator still counts as below
SizeBelowOrEqual(size, max2) == 2 * size <= max2

\* faulty variant of SizeBelow: the maximum is never reached
SizeBelowAlways(size, max2) == TRUE

SizeBelow(size, max2) == 2 * size < max2

Min(a, b) == IF a < b THEN a ELSE b

Max(a, b) == IF a > b THEN a ELSE b

\* ToIntegerOrInfinity of the number held as num2: truncation towards zero
Truncate(n2) == IF n2 >= 0 THEN n2 \div 2 ELSE -((-n2) \div 2)

\* faulty variant of Slice: the last elements are kept instead of the first
SliceLast(seq, end2) ==
    SubSeq(seq, Len(seq) - Min(Truncate(end2), Len(seq)) + 1, Len(seq))

\* faulty variant of Slice: the slice is forgotten
SliceAll(seq, end2) == seq

\* faulty variant of Slice: the end is taken one too far
SliceOneMore(seq, end2) ==
    SubSeq(seq, 1, Min(Truncate(end2) + 1, Len(seq)))

Slice(seq, end2) ==
    LET rel == Truncate(end2)
        final == IF rel < 0 THEN Max(Len(seq) + rel, 0) ELSE Min(rel, Len(seq))
    IN SubSeq(seq, 1, final)

(***************************************************************************)
(* One iteration of the loop after its response arrived: the results after *)
(* the page, whether the loop goes round again, and the continuation       *)
(* parameters it then holds.                                               *)
(***************************************************************************)
\* faulty variant of PageStep: the hidden inputs are added to the parameters of the
\* request before instead of to a fresh set
PageStepCarry(im, q, max2, results, npp, np, page) ==
    LET scan == ScanRows(im, page.rows, 1, [results |-> results, found |-> FALSE])
        stop == [results |-> scan.results, again |-> FALSE,
                 nextPageParams |-> npp, nextParams |-> np]
    IN IF ~scan.found \/ ~SizeBelow(Len(scan.results), max2) THEN stop
       ELSE IF im = "navbutton"
       THEN LET nextForm == NextFormNav(page.forms)
            IN IF nextForm = <<>> THEN stop
               ELSE [results |-> scan.results,
                     again |-> SizeBelow(Len(scan.results), max2),
                     nextPageParams |->
                         AssignHidden(npp, HiddenInputs(nextForm)),
                     nextParams |-> np]
       ELSE LET nextForm == NextFormLast(page.forms)
                found == AssignHidden(np, HiddenInputs(nextForm))
            IN IF nextForm = <<>> THEN stop
               ELSE IF DOMAIN found = {}
               THEN [stop EXCEPT !.nextParams = found]
               ELSE [results |-> scan.results,
                     again |-> SizeBelow(Len(scan.results), max2),
                     nextPageParams |-> npp,
                     nextParams |-> found]

PageStep(im, q, max2, results, npp, np, page) ==
    LET scan == ScanRows(im, page.rows, 1, [results |-> results, found |-> FALSE])
        stop == [results |-> scan.results, again |-> FALSE,
                 nextPageParams |-> npp, nextParams |-> np]
    IN IF ~scan.found \/ ~SizeBelow(Len(scan.results), max2) THEN stop
       ELSE IF im = "navbutton"
       THEN LET nextForm == NextFormNav(page.forms)
            IN IF nextForm = <<>> THEN stop
               ELSE [results |-> scan.results,
                     again |-> SizeBelow(Len(scan.results), max2),
                     nextPageParams |->
                         AssignHidden(BaseParams(q), HiddenInputs(nextForm)),
                     nextParams |-> np]
       ELSE LET nextForm == NextFormLast(page.forms)
                found == AssignHidden(EmptyParams, HiddenInputs(nextForm))
            IN IF nextForm = <<>> THEN stop
               ELSE IF DOMAIN found = {}
               THEN [stop EXCEPT !.nextParams = found]
               ELSE [results |-> scan.results,
                     again |-> SizeBelow(Len(scan.results), max2),
                     nextPageParams |-> npp,
                     nextParams |-> found]

(***************************************************************************)
(* The tool-invocation handler.                                            *)
(***************************************************************************)
NoOutcome == [kind |-> "none", isError |-> FALSE, content |-> <<>>, text |-> ""]

\* return { content: [{ type: "text", text: JSON.stringify(results) }] }
Returned(results) ==
    [kind |-> "return", isError |-> FALSE, content |-> results, text |-> ""]

\* the handler's catch: return { content: [...`Error performing search`], isError: true }
SearchFailed ==
    [kind |-> "return", isError |-> TRUE, content |-> <<>>,
     text |-> "Error performing search"]

\* throw new Error(message), out of the handler
Thrown(message) ==
    [kind |-> "throw", isError |-> FALSE, content |-> <<>>, text |-> message]

\* const { query, maxResults = 30 } = request.params.arguments
MaxResultsArg(req) ==
    IF req.maxResults.type = "undefined"
    THEN JsNumber(DefaultMaxResults)
    ELSE req.maxResults

\* faulty variant of BadMaxResults: the test against the upper limit is missing
BadMaxResultsNoUpper(v) ==
    /\ v.type # "undefined"
    /\ \/ v.type # "number"
       \/ v.num2 < 2 * MinMaxResults

\* maxResults !== undefined && (typeof !== "number" || < 1 || > 100)
BadMaxResults(v) ==
    /\ v.type # "undefined"
    /\ \/ v.type # "number"
       \/ v.num2 < 2 * MinMaxResults
       \/ v.num2 > 2 * MaxMaxResults

\* the message of the Error the handler throws on its input, "" when it throws none
Rejection(im, req) ==
    IF req.name # "search" THEN "Unknown tool"
    ELSE IF req.arguments # "object" THEN "Invalid arguments"
    ELSE IF req.query.type # "string" THEN "Invalid query parameter"
    ELSE IF im # "single" /\ BadMaxResults(MaxResultsArg(req))
    THEN "Invalid maxResults parameter (must be between 1 and 100)"
    ELSE ""

(***************************************************************************)
(* What the environment can send: invocations and pages.                   *)
(***************************************************************************)
Impls == {"navbutton", "lastform", "single"}

ToolRequest(name, arguments, q, m) ==
    [name |-> name, arguments |-> arguments, query |-> q, maxResults |-> m]

\* well-formed invocations with a small maximum
SearchRequests ==
    {ToolRequest("search", "object", JsString("cats"), JsNumber(m)) : m \in {1, 2}}

\* invocations of every shape the handler tells apart
AnyRequests ==
    {ToolRequest(name, arguments, q, m) :
        name \in {"search", "fetch"},
        arguments \in {"object", "undefined"},
        q \in {JsString("cats"), JsString(""), JsNumber(7), JsUndefined},
        m \in {JsUndefined, JsNumber(0), JsNumber(1), JsHalf(5), JsNumber(100),
               JsNumber(101), JsString("5"), JsNull}}

RowKinds ==
    { Row(<<"1", ".">>, "last", <<"a">>, "u1", <<>>, TRUE),
      Row(<<" ", "2", ".">>, "last", <<"b">>, "u1", <<"s">>, FALSE),
      Row(<<"1", "0", ".">>, "last", <<"a">>, "u2", <<>>, TRUE),
      Row(<<"4", ".">>, "last", <<" ">>, "u2", <<>>, FALSE),
      Row(<<"5">>, "last", <<"a">>, "u2", <<"t">>, FALSE) }

NextForm == Form(TRUE, TRUE, "/lite/", <<Hidden("nx", "p2")>>)

SearchForm == Form(FALSE, FALSE, "/lite/", <<>>)

BareNextForm == Form(TRUE, FALSE, "/next", <<>>)

FormLists ==
    { <<>>, <<SearchForm>>, <<SearchForm, NextForm>>, <<BareNextForm>> }

SeqsUpTo(S, n) == UNION {[1..k -> S] : k \in 0..n}

Pages == [rows : SeqsUpTo(RowKinds, MaxRows), forms : FormLists]

\* a few pages, for the runs that vary the invocation instead
PlainPages ==
    { [rows |-> <<>>, forms |-> <<>>],
      [rows |-> <<Row(<<"1", ".">>, "last", <<"a">>, "u1", <<>>, TRUE)>>,
       forms |-> <<SearchForm, NextForm>>],
      [rows |-> <<Row(<<"1", "0", ".">>, "last", <<"a">>, "u2", <<>>, TRUE),
                  Row(<<"3", ".">>, "last", <<"c">>, "u3", <<>>, FALSE)>>,
       forms |-> <<SearchForm, NextForm>>] }

(***************************************************************************)
(* The state machine.                                                      *)
(***************************************************************************)
\* the invocation that may arrive while the first is in flight
SecondRequest == ToolRequest("search", "object", JsString("dogs"), JsNumber(2))

\* the locals and the history of an invocation that has not entered the handler
Idle(req) ==
    [pc |-> "idle", request |-> req, query |-> "", maxResults |-> 0,
     allResults |-> <<>>, nextPageParams |-> EmptyParams, nextParams |-> EmptyParams,
     currentPage |-> 1, requests |-> <<>>, served |-> <<>>, failedAt |-> 0,
     outcome |-> NoOutcome]

InitOver(reqs) ==
    /\ impl \in Impls
    /\ request \in reqs
    /\ pc = "idle"
    /\ query = ""
    /\ maxResults = 0
    /\ allResults = <<>>
    /\ nextPageParams = EmptyParams
    /\ nextParams = EmptyParams
    /\ currentPage = 1
    /\ requests = <<>>
    /\ served = <<>>
    /\ failedAt = 0
    /\ outcome = NoOutcome
    /\ second = Idle(SecondRequest)

Init == InitOver(SearchRequests)

\* The handler from its entry to its first suspension: validation, then
\* searchDuckDuckGo up to the first axios.post (or its return).
CallTool ==
    /\ pc = "idle"
    /\ LET rej == Rejection(impl, request)
           q == request.query.str
           max2 == IF impl = "single" THEN 0 ELSE MaxResultsArg(request).num2
           npp == IF impl = "navbutton" THEN BaseParams(q) ELSE EmptyParams
       IN IF rej # ""
          THEN /\ pc' = "done"
               /\ outcome' = Thrown(rej)
               /\ UNCHANGED <<query, maxResults, nextPageParams, requests>>
          ELSE /\ query' = q
               /\ maxResults' = max2
               /\ nextPageParams' = npp
               /\ IF impl = "single" \/ SizeBelow(0, max2)
                  THEN /\ requests' = <<FormData(impl, q, npp, EmptyParams)>>
                       /\ pc' = "await"
                       /\ outcome' = outcome
                  ELSE /\ requests' = requests
                       /\ pc' = "done"
                       /\ outcome' = Returned(Slice(<<>>, max2))
    /\ UNCHANGED <<impl, request, allResults, nextParams, currentPage, served,
                   failedAt, second>>

\* axios.post resolves with a page: the rest of the iteration, then either
\* the next axios.post or the return of the results.
PostOk(pages) ==
    /\ pc = "await"
    /\ \E page \in pages :
        /\ served' = Append(served, page)
        /\ IF impl = "single"
           THEN /\ outcome' = Returned(PushRows(page.rows, 1, <<>>))
                /\ pc' = "done"
                /\ UNCHANGED <<allResults, nextPageParams, nextParams,
                               currentPage, requests>>
           ELSE LET step == PageStep(impl, query, maxResults, allResults,
                                     nextPageParams, nextParams, page)
                IN /\ allResults' = step.results
                   /\ nextPageParams' = step.nextPageParams
                   /\ nextParams' = step.nextParams
                   /\ IF step.again
                      THEN /\ requests' = Append(requests,
                                  FormData(impl, query, step.nextPageParams,
                                           step.nextParams))
                           /\ currentPage' =
                                  IF impl = "lastform" THEN currentPage + 1
                                  ELSE currentPage
                           /\ pc' = "await"
                           /\ outcome' = outcome
                      ELSE /\ outcome' = Returned(Slice(step.results, maxResults))
                           /\ pc' = "done"
                           /\ UNCHANGED <<requests, currentPage>>
    /\ UNCHANGED <<impl, request, query, maxResults, failedAt, second>>

\* faulty variant of PostFail: the failure is swallowed and what was gathered is returned
PostFailPartial ==
    /\ pc = "await"
    /\ failedAt' = Len(requests)
    /\ outcome' = Returned(Slice(allResults, maxResults))
    /\ pc' = "done"
    /\ UNCHANGED <<impl, request, query, maxResults, allResults, nextPageParams,
                   nextParams, currentPage, requests, served, second>>

\* axios.post rejects: searchDuckDuckGo's catch rethrows, the handler's catch
\* returns the error result.
PostFail ==
    /\ pc = "await"
    /\ failedAt' = Len(requests)
    /\ outcome' = SearchFailed
    /\ pc' = "done"
    /\ UNCHANGED <<impl, request, query, maxResults, allResults, nextPageParams,
                   nextParams, currentPage, requests, served, second>>

Next == CallTool \/ PostOk(Pages) \/ PostFail

Spec == Init /\ [][Next]_vars

\* every shape of invocation, against a few pages
InitHandler == InitOver(AnyRequests)

NextHandler == CallTool \/ PostOk(PlainPages) \/ PostFail

SpecHandler == InitHandler /\ [][NextHandler]_vars

TypeOK ==
    /\ impl \in Impls
    /\ pc \in {"idle", "await", "done"}
    /\ Len(served) <= Len(requests)
    /\ failedAt \in 0..Len(requests)
    /\ outcome.kind \in {"none", "return", "throw"}

(***************************************************************************)
(* What the served pages offered, read off the markup.                     *)
(***************************************************************************)
\* a candidate: a marker row whose link has a non-empty title and url
ValidCandidate(im, row) ==
    /\ IsMarkerText(Trim(row.firstCell))
    /\ RowTitle(im, row) # <<>>
    /\ RowUrl(im, row) # ""

\* the urls of the candidates of one page
CandidateUrls(im, page) ==
    {RowUrl(im, page.rows[i]) : i \in {j \in 1..Len(page.rows) :
                                          ValidCandidate(im, page.rows[j])}}

\* the urls of the candidates of all the pages served
OfferedUrls == UNION {CandidateUrls(impl, served[k]) : k \in 1..Len(served)}

Offered == Cardinality(OfferedUrls)

\* the positions <<page, row>> at which url is a candidate
Occurrences(url) ==
    {<<k, i>> \in (1..Len(served)) \X (1..MaxRows + 1) :
        /\ i <= Len(served[k].rows)
        /\ ValidCandidate(impl, served[k].rows[i])
        /\ RowUrl(impl, served[k].rows[i]) = url}

Before(a, b) == a[1] < b[1] \/ (a[1] = b[1] /\ a[2] < b[2])

\* what the page says about url where it first is a candidate
FirstOccurrence(url) ==
    LET first == CHOOSE a \in Occurrences(url) :
                     \A b \in Occurrences(url) : a = b \/ Before(a, b)
        rows == served[first[1]].rows
    IN [title |-> Trim(rows[first[2]].title), url |-> url,
        snippet |-> RowSnippet(rows, first[2])]

EntriesFor(results, url) == {i \in 1..Len(results) : results[i].url = url}

Paginating == impl # "single"

Succeeded == pc = "done" /\ outcome.kind = "return" /\ ~outcome.isError

IntegerMax == maxResults % 2 = 0

(***************************************************************************)
(* C1  Truncation.  When the pages served to an invocation that met no     *)
(* transport failure offer at least M distinct candidates, the invocation  *)
(* returns exactly M results.                                              *)
(***************************************************************************)
C1_Truncation ==
    (/\ Paginating
     /\ pc = "done"
     /\ failedAt = 0
     /\ IntegerMax
     /\ 2 * Offered >= maxResults)
    => (Succeeded /\ 2 * Len(outcome.content) = maxResults)

C1_Witness ==
    /\ Paginating
    /\ Succeeded
    /\ Len(served) = 2
    /\ maxResults = 4
    /\ CandidateUrls(impl, served[1]) # CandidateUrls(impl, served[2])
    /\ Offered = 2
    /\ Len(outcome.content) = 2

(***************************************************************************)
(* C2  Shortfall.  When the pages served to an invocation that met no      *)
(* transport failure offer N < M distinct candidates, N = 0 included, the  *)
(* invocation ends with a success result of exactly N results.             *)
(***************************************************************************)
C2_Shortfall ==
    (/\ Paginating
     /\ pc = "done"
     /\ failedAt = 0
     /\ 2 * Offered < maxResults)
    => (Succeeded /\ Len(outcome.content) = Offered)

C2_Witness ==
    /\ Paginating
    /\ Succeeded
    /\ Len(served) = 2
    /\ CandidateUrls(impl, served[2]) # {}
    /\ Offered = 1
    /\ maxResults = 4
    /\ Len(outcome.content) = 1

(***************************************************************************)
(* C3  Dedup, first occurrence wins.  A url that is a candidate on page 1  *)
(* and again on page 2 has exactly one entry, in the accumulator at every  *)
(* moment and in the returned results, and the entry's title and snippet   *)
(* are those of its first occurrence.                                      *)
(***************************************************************************)
C3_FirstOccurrenceWins ==
    (Paginating /\ Len(served) >= 2)
    => \A url \in CandidateUrls(impl, served[1]) \cap CandidateUrls(impl, served[2]) :
          /\ Cardinality(EntriesFor(allResults, url)) = 1
          /\ \A i \in EntriesFor(allResults, url) :
                allResults[i] = FirstOccurrence(url)
          /\ Succeeded =>
                /\ Cardinality(EntriesFor(outcome.content, url)) = 1
                /\ \A i \in EntriesFor(outcome.content, url) :
                      outcome.content[i] = FirstOccurrence(url)

\* page 2 repeats a url of page 1 under another title and snippet
C3_Witness ==
    /\ Paginating
    /\ Succeeded
    /\ Len(served) = 2
    /\ \E url \in CandidateUrls(impl, served[1]) :
          \E i \in 1..Len(served[2].rows) :
             /\ ValidCandidate(impl, served[2].rows[i])
             /\ RowUrl(impl, served[2].rows[i]) = url
             /\ Trim(served[2].rows[i].title) # FirstOccurrence(url).title
             /\ RowSnippet(served[2].rows, i) # FirstOccurrence(url).snippet
             /\ \E j \in 1..Len(outcome.content) :
                   outcome.content[j] = FirstOccurrence(url)

(***************************************************************************)
(* C4  Count bound.  A successful invocation returns at most M results,    *)
(* and when the accumulator went past M it returns exactly M.              *)
(***************************************************************************)
C4_CountBound ==
    (Paginating /\ Succeeded)
    => /\ 2 * Len(outcome.content) <= maxResults
       /\ (IntegerMax /\ 2 * Len(allResults) > maxResults)
             => 2 * Len(outcome.content) = maxResults

C4_Witness ==
    /\ Paginating
    /\ Succeeded
    /\ maxResults = 2
    /\ Len(allResults) = 2
    /\ Len(outcome.content) = 1

(***************************************************************************)
(* C5  Uniqueness.  No two results of a successful invocation have the     *)
(* same url.                                                               *)
(***************************************************************************)
C5_UniqueUrls ==
    Succeeded
    => \A i, j \in 1..Len(outcome.content) :
          outcome.content[i].url = outcome.content[j].url => i = j

(***************************************************************************)
(* C6  Single request without a next-page form.  When the first response   *)
(* holds no next-page form, the invocation issues one page request and no  *)
(* more.                                                                   *)
(***************************************************************************)
\* the page holds no form that the implementation's selector takes
NoNextPageForm(im, page) ==
    \A i \in 1..Len(page.forms) :
        IF im = "navbutton"
        THEN ~page.forms[i].navbutton
        ELSE ~(page.forms[i].nextClass \/ page.forms[i].action = "/lite/")

C6_SingleRequest ==
    (Paginating /\ Len(served) >= 1 /\ NoNextPageForm(impl, served[1]))
    => Len(requests) = 1

\* page 1 gave a new result, the maximum is not reached, and yet the loop ended
C6_Witness ==
    /\ Paginating
    /\ Succeeded
    /\ NoNextPageForm(impl, served[1])
    /\ served[1].forms # <<>>
    /\ Len(allResults) = 1
    /\ maxResults = 4
    /\ Len(requests) = 1

(***************************************************************************)
(* C7  Validation before network.  An invocation with maxResults below 1   *)
(* or above 100, with a query that is no string, or with an operation name *)
(* other than search is rejected, and no request is ever sent to the       *)
(* search endpoint for it.                                                 *)
(***************************************************************************)
OutOfRange(v) == v.type = "number" /\ (v.num2 < 2 \/ v.num2 > 200)

ClaimedInvalid ==
    \/ request.name # "search"
    \/ request.query.type # "string"
    \/ Paginating /\ OutOfRange(request.maxResults)

Rejected == pc = "done" /\ outcome.kind = "throw" /\ outcome.text # ""

C7_ValidationBeforeNetwork ==
    ClaimedInvalid => /\ requests = <<>>
                      /\ pc # "await"
                      /\ pc = "done" => Rejected

C7_Witness ==
    /\ Paginating
    /\ request = ToolRequest("search", "object", JsString("cats"), JsNumber(101))
    /\ Rejected
    /\ requests = <<>>

(***************************************************************************)
(* C8  Input shape.  An invocation whose query is the empty string, or     *)
(* whose maxResults is a number in range that is no integer, is rejected   *)
(* before the loop is entered.                                             *)
(***************************************************************************)
C8_InputShape ==
    (/\ request.name = "search"
     /\ request.arguments = "object"
     /\ \/ request.query = JsString("")
        \/ Paginating /\ request.maxResults = JsHalf(5))
    => /\ requests = <<>>
       /\ pc = "done" => Rejected

(***************************************************************************)
(* C9  Failure boundary.  Every invocation that fails, on its input or in  *)
(* the search, ends by returning a result with the error indicator and a   *)
(* message; the handler never raises.                                      *)
(***************************************************************************)
C9_FailureBoundary ==
    pc = "done"
    => /\ outcome.kind = "return"
       /\ (Rejection(impl, request) # "" \/ failedAt # 0)
             => (outcome.isError /\ outcome.text # "")

(***************************************************************************)
(* C10  Abort on transport failure.  Once a page request has failed, the   *)
(* invocation is over: the failed request is the last one sent, nothing    *)
(* that was gathered is returned, and the result carries the error         *)
(* indicator.                                                              *)
(***************************************************************************)
C10_AbortOnFailure ==
    failedAt # 0
    => /\ pc = "done"
       /\ Len(requests) = failedAt
       /\ Len(served) = failedAt - 1
       /\ outcome.kind = "return"
       /\ outcome.isError
       /\ outcome.text # ""
       /\ outcome.content = <<>>

\* the second request fails after the first page gave results
C10_Witness ==
    /\ failedAt = 2
    /\ allResults # <<>>
    /\ pc = "done"
    /\ outcome.isError

(***************************************************************************)
(* Pages of anomalous markup: marker rows whose link has no text, no href, *)
(* or sits outside the last cell, among rows that are results.             *)
(***************************************************************************)
MarkupRows ==
    { Row(<<"1", ".">>, "last", <<"a">>, "u1", <<>>, TRUE),
      Row(<<"2", ".">>, "last", <<" ">>, "u2", <<>>, TRUE),
      Row(<<"3", ".">>, "last", <<"b">>, "", <<>>, FALSE),
      Row(<<"4", ".">>, "inner", <<"c">>, "u3", <<>>, FALSE),
      Row(<<"5", ".">>, "last", <<"b">>, "u2", <<"s">>, FALSE) }

MarkupPages ==
    [rows : SeqsUpTo(MarkupRows, MaxRows), forms : {<<>>, <<SearchForm, NextForm>>}]

NextMarkup == CallTool \/ PostOk(MarkupPages) \/ PostFail

SpecMarkup == Init /\ [][NextMarkup]_vars

\* a marker row that is no candidate: its title or its url is empty
Anomalous(im, row) ==
    /\ IsMarkerText(Trim(row.firstCell))
    /\ ~ValidCandidate(im, row)

ResultUrls(results) == {results[i].url : i \in 1..Len(results)}

(***************************************************************************)
(* C11  Non-empty fields.  Every result of a successful invocation has a   *)
(* non-empty title and a non-empty url.                                    *)
(***************************************************************************)
C11_NonEmptyFields ==
    Succeeded
    => \A i \in 1..Len(outcome.content) :
          outcome.content[i].title # <<>> /\ outcome.content[i].url # ""

(***************************************************************************)
(* C18  Extraction anomalies are skipped, not raised.  A marker row with   *)
(* an empty title or url gives no result and no error, and the candidates  *)
(* in the rows after it are still collected.                               *)
(***************************************************************************)
C18_AnomaliesSkipped ==
    Paginating
    => /\ \A k \in 1..Len(served) :
             CandidateUrls(impl, served[k]) \subseteq ResultUrls(allResults)
       /\ Len(allResults) = Offered
       /\ (pc = "done" /\ failedAt = 0) => Succeeded

\* an anomalous row comes first on a page and the candidate after it is returned
C18_Witness ==
    /\ Paginating
    /\ Succeeded
    /\ Len(served) >= 1
    /\ Len(served[1].rows) = 2
    /\ Anomalous(impl, served[1].rows[1])
    /\ ValidCandidate(impl, served[1].rows[2])
    /\ ResultUrls(outcome.content) = {RowUrl(impl, served[1].rows[2])}

(***************************************************************************)
(* C12  Discovery order and mid-page truncation.  The returned sequence is *)
(* the first M distinct candidates of the pages served, in page-then-row   *)
(* order of their first occurrence, however many more candidates the page  *)
(* on which M was reached holds.                                           *)
(***************************************************************************)
FirstPosition(url) ==
    CHOOSE a \in Occurrences(url) : \A b \in Occurrences(url) : a = b \/ Before(a, b)

\* the place of url among the offered urls, in the order of first occurrence
Rank(url) ==
    1 + Cardinality({u \in OfferedUrls : Before(FirstPosition(u), FirstPosition(url))})

C12_DiscoveryOrder ==
    (Paginating /\ Succeeded)
    => /\ Len(outcome.content) = Min(Truncate(maxResults), Offered)
       /\ \A i \in 1..Len(outcome.content) :
             /\ outcome.content[i].url \in OfferedUrls
             /\ Rank(outcome.content[i].url) = i
             /\ outcome.content[i] = FirstOccurrence(outcome.content[i].url)

\* the maximum 1 is reached at the first of two candidates of page 1
C12_Witness ==
    /\ Paginating
    /\ Succeeded
    /\ maxResults = 2
    /\ Len(served) = 1
    /\ Len(served[1].rows) = 2
    /\ CandidateUrls(impl, served[1]) = {"u1", "u2"}
    /\ RowUrl(impl, served[1].rows[1]) = "u2"
    /\ Len(outcome.content) = 1
    /\ outcome.content[1].url = "u2"

(***************************************************************************)
(* C16  Guard on each further request.  A page request after the first is  *)
(* issued only if the preceding page inserted a new url and the            *)
(* accumulator is still below the maximum; a page that adds nothing, or    *)
(* that fills the accumulator, is the last one requested, next-page form   *)
(* or not.                                                                 *)
(***************************************************************************)
\* the urls offered by the first k pages served, and those page k is first to offer
OfferedUpTo(k) == UNION {CandidateUrls(impl, served[j]) : j \in 1..k}

NewAt(k) == CandidateUrls(impl, served[k]) \ OfferedUpTo(k - 1)

C16_GuardedRequests ==
    Paginating
    => \A k \in 2..Len(requests) :
          /\ Len(served) >= k - 1
          /\ NewAt(k - 1) # {}
          /\ 2 * Cardinality(OfferedUpTo(k - 1)) < maxResults

\* a second request was issued; the second page repeats the first and has a
\* next-page form, and no third request follows
C16_Witness ==
    /\ Paginating
    /\ Succeeded
    /\ maxResults = 4
    /\ Len(requests) = 2
    /\ Len(served) = 2
    /\ NewAt(1) # {}
    /\ CandidateUrls(impl, served[2]) # {}
    /\ NewAt(2) = {}
    /\ served[2].forms = <<SearchForm, NextForm>>

(***************************************************************************)
(* C15  Stop on empty continuation.  When a page added new results, the    *)
(* maximum is not reached and the page's next-page form holds no hidden    *)
(* input, that page is the last one requested and the invocation returns   *)
(* with success what it gathered.                                          *)
(***************************************************************************)
\* the forms the implementation takes for the next-page form of a page
NextPageForm(page) ==
    IF impl = "navbutton" THEN NextFormNav(page.forms) ELSE NextFormLast(page.forms)

EmptyContinuation(k) ==
    /\ NewAt(k) # {}
    /\ 2 * Cardinality(OfferedUpTo(k)) < maxResults
    /\ NextPageForm(served[k]) # <<>>
    /\ HiddenInputs(NextPageForm(served[k])) = <<>>

C15_StopOnEmptyContinuation ==
    Paginating
    => \A k \in 1..Len(served) :
          EmptyContinuation(k)
          => /\ Len(requests) = k
             /\ Succeeded
             /\ outcome.content = allResults

(***************************************************************************)
(* Runs over next-page forms whose hidden inputs differ from page to page: *)
(* two tokens, one token, a name given twice, inputs named q and kl, and   *)
(* two forms with the button on one page.  The maximum goes up to 3, so    *)
(* that a third request follows two continuations.                         *)
(***************************************************************************)
TokenRequests ==
    {ToolRequest("search", "object", JsString("cats"), JsNumber(m)) : m \in {1, 2, 3}}

TokenRow(marker, title, url) == Row(<<marker, ".">>, "last", <<title>>, url, <<>>, TRUE)

TokenRowLists ==
    { <<>>,
      <<TokenRow("1", "a", "u1")>>,
      <<TokenRow("2", "b", "u2")>>,
      <<TokenRow("3", "c", "u3")>>,
      <<TokenRow("1", "a", "u1"), TokenRow("2", "b", "u2")>> }

TwoTokens == Form(TRUE, TRUE, "/lite/", <<Hidden("nx", "p2"), Hidden("s", "1")>>)

OneToken == Form(TRUE, TRUE, "/lite/", <<Hidden("v", "x")>>)

TwiceToken == Form(TRUE, TRUE, "/lite/", <<Hidden("nx", "p2"), Hidden("nx", "p3")>>)

BaseNamedToken == Form(TRUE, TRUE, "/lite/", <<Hidden("q", "dogs"), Hidden("kl", "de-de")>>)

TokenFormLists ==
    { <<>>,
      <<SearchForm, TwoTokens>>,
      <<SearchForm, OneToken>>,
      <<SearchForm, TwiceToken>>,
      <<SearchForm, BaseNamedToken>>,
      <<TwoTokens, OneToken>> }

TokenPages == [rows : TokenRowLists, forms : TokenFormLists]

InitForms == InitOver(TokenRequests)

NextForms == CallTool \/ PostOk(TokenPages) \/ PostFail

SpecForms == InitForms /\ [][NextForms]_vars

(***************************************************************************)
(* C13  Required fields on every submission.  Every page request of an     *)
(* invocation carries q equal to the invocation's query text and kl equal  *)
(* to us-en, whatever the hidden inputs of the previous page were named.   *)
(***************************************************************************)
C13_RequiredFields ==
    \A k \in 1..Len(requests) :
        /\ {"q", "kl"} \subseteq DOMAIN requests[k]
        /\ requests[k]["q"] = request.query.str
        /\ requests[k]["kl"] = "us-en"

(***************************************************************************)
(* C14  Continuation rebuilt from scratch.  The body of request k+1 is the *)
(* base pair q, kl plus the hidden inputs of the next-page form of the     *)
(* response to request k, a later input of a name overwriting an earlier   *)
(* one; a name that only the response to request k-1 gave is not sent.     *)
(***************************************************************************)
HiddenNames(page) ==
    LET hid == HiddenInputs(NextPageForm(page))
    IN {hid[i].name : i \in 1..Len(hid)}

\* the value the last hidden input of that name gives
HiddenValue(page, name) ==
    LET hid == HiddenInputs(NextPageForm(page))
        last == CHOOSE i \in 1..Len(hid) :
                    hid[i].name = name /\ \A j \in (i + 1)..Len(hid) : hid[j].name # name
    IN hid[last].value

Continuation(page) ==
    [name \in {"q", "kl"} \cup HiddenNames(page) |->
        IF name \in HiddenNames(page) THEN HiddenValue(page, name)
        ELSE IF name = "q" THEN request.query.str ELSE "us-en"]

C14_ContinuationRebuilt ==
    Paginating
    => \A k \in 1..(Len(requests) - 1) :
          /\ requests[k + 1] = Continuation(served[k])
          /\ k > 1 => \A name \in HiddenNames(served[k - 1]) \ HiddenNames(served[k]) :
                         name \notin DOMAIN requests[k + 1] \ {"q", "kl"}

\* the first page gave nx and s, the second gave v only: the third request
\* carries v and neither nx nor s
C14_Witness ==
    /\ Paginating
    /\ Len(requests) = 3
    /\ HiddenNames(served[1]) = {"nx", "s"}
    /\ HiddenNames(served[2]) = {"v"}
    /\ DOMAIN requests[2] = {"q", "kl", "nx", "s"}
    /\ DOMAIN requests[3] = {"q", "kl", "v"}

(***************************************************************************)
(* C17  Unbounded iteration risk.  Against a server whose every response   *)
(* brings new results and a next-page form with its hidden inputs, the     *)
(* invocation does not return.  The loop condition bounds the iterations   *)
(* by the maximum, so the statement fails; what holds is                   *)
(* C17_BoundedIteration below.                                             *)
(***************************************************************************)
\* so far every request was answered, by a page that is first to offer some
\* url and holds a next-page form with hidden inputs
Pathological ==
    /\ Paginating
    /\ Len(served) >= 1
    /\ failedAt = 0
    /\ \A k \in 1..Len(served) : NewAt(k) # {} /\ HiddenNames(served[k]) # {}

C17_LoopsIndefinitely == Pathological => pc # "done"

\* C17 as it holds: against such a server no more requests are issued than the
\* maximum, and once as many pages have arrived the invocation has returned
\* with success.
C17_BoundedIteration ==
    Pathological
    => /\ 2 * (Len(requests) - 1) < maxResults
       /\ 2 * Len(served) >= maxResults => pc = "done" /\ Succeeded

C17_Witness ==
    /\ Pathological
    /\ maxResults = 6
    /\ Len(requests) = 3
    /\ Len(served) = 3
    /\ Succeeded
    /\ Len(outcome.content) = 3

(***************************************************************************)
(* Fairness: the invocation is delivered to the handler, and every         *)
(* axios.post in flight completes, with a response or with a failure.      *)
(***************************************************************************)
FairForms ==
    SpecForms /\ WF_vars(CallTool) /\ WF_vars(PostOk(TokenPages) \/ PostFail)

(***************************************************************************)
(* C19  Implicit progress bound.  Every loop iteration that is followed by *)
(* another page request strictly increases the accumulator's size, so an   *)
(* invocation with maximum M issues at most M page requests and, every     *)
(* request completing, eventually returns, whatever the server answers.    *)
(***************************************************************************)
\* a step that completes an iteration and issues a further request
IterationGrows ==
    (Paginating /\ Len(requests) >= 1 /\ Len(requests') > Len(requests))
    => Len(allResults') > Len(allResults)

C19_ProgressBound ==
    /\ [][IterationGrows]_vars
    /\ [](Paginating => 2 * Len(requests) <= maxResults)
    /\ (Paginating /\ pc = "await") ~> (pc = "done")

\* as many requests as the maximum were issued, the last page repeated an
\* earlier one, and the invocation returned short of the maximum
C19_Witness ==
    /\ Paginating
    /\ pc = "done"
    /\ maxResults = 6
    /\ Len(requests) = 3
    /\ Len(served) = 3
    /\ NewAt(3) = {}
    /\ Len(allResults) = 2

(***************************************************************************)
(* Two invocations in flight.  The handler is async and every name         *)
(* searchDuckDuckGo assigns is a local of the call, so an invocation is a  *)
(* record of its own locals; the steps below are those of CallTool, PostOk *)
(* and PostFail on such a record.  The second invocation enters, is        *)
(* answered and fails at any point of the first one's progress, before it, *)
(* between two of its round trips or after its return.                     *)
(***************************************************************************)
\* the handler from its entry to its first suspension
Entered(im, inv) ==
    LET req == inv.request
        rej == Rejection(im, req)
        q == req.query.str
        max2 == IF im = "single" THEN 0 ELSE MaxResultsArg(req).num2
        npp == IF im = "navbutton" THEN BaseParams(q) ELSE EmptyParams
    IN IF rej # ""
       THEN [inv EXCEPT !.pc = "done", !.outcome = Thrown(rej)]
       ELSE IF im = "single" \/ SizeBelow(0, max2)
       THEN [inv EXCEPT !.query = q, !.maxResults = max2, !.nextPageParams = npp,
                        !.requests = <<FormData(im, q, npp, EmptyParams)>>,
                        !.pc = "await"]
       ELSE [inv EXCEPT !.query = q, !.maxResults = max2, !.nextPageParams = npp,
                        !.pc = "done", !.outcome = Returned(Slice(<<>>, max2))]

\* axios.post resolved with page
Answered(im, inv, page) ==
    IF inv.pc # "await" THEN inv
    ELSE IF im = "single"
    THEN [inv EXCEPT !.served = Append(@, page),
                     !.outcome = Returned(PushRows(page.rows, 1, <<>>)),
                     !.pc = "done"]
    ELSE LET step == PageStep(im, inv.query, inv.maxResults, inv.allResults,
                              inv.nextPageParams, inv.nextParams, page)
             after == [inv EXCEPT !.served = Append(@, page),
                                  !.allResults = step.results,
                                  !.nextPageParams = step.nextPageParams,
                                  !.nextParams = step.nextParams]
         IN IF step.again
            THEN [after EXCEPT
                     !.requests = Append(@, FormData(im, inv.query,
                                      step.nextPageParams, step.nextParams)),
                     !.currentPage = IF im = "lastform" THEN @ + 1 ELSE @]
            ELSE [after EXCEPT
                     !.outcome = Returned(Slice(step.results, inv.maxResults)),
                     !.pc = "done"]

\* axios.post rejected
Failed(inv) ==
    IF inv.pc # "await" THEN inv
    ELSE [inv EXCEPT !.failedAt = Len(inv.requests), !.outcome = SearchFailed,
                     !.pc = "done"]

CallSecond ==
    /\ second.pc = "idle"
    /\ second' = Entered(impl, second)
    /\ UNCHANGED <<impl, request, pc, query, maxResults, allResults, nextPageParams,
                   nextParams, currentPage, requests, served, failedAt, outcome>>

\* faulty variant of PostOkSecond: the accumulator is one Map of the module, which both
\* invocations fill
PostOkSecondShared(pages) ==
    /\ second.pc = "await"
    /\ \E page \in pages :
          second' = Answered(impl, [second EXCEPT !.allResults = allResults], page)
    /\ UNCHANGED <<impl, request, pc, query, maxResults, allResults, nextPageParams,
                   nextParams, currentPage, requests, served, failedAt, outcome>>

PostOkSecond(pages) ==
    /\ second.pc = "await"
    /\ \E page \in pages : second' = Answered(impl, second, page)
    /\ UNCHANGED <<impl, request, pc, query, maxResults, allResults, nextPageParams,
                   nextParams, currentPage, requests, served, failedAt, outcome>>

PostFailSecond ==
    /\ second.pc = "await"
    /\ second' = Failed(second)
    /\ UNCHANGED <<impl, request, pc, query, maxResults, allResults, nextPageParams,
                   nextParams, currentPage, requests, served, failedAt, outcome>>

\* what the endpoint answers to the first invocation (query cats) ...
FirstPages ==
    { [rows |-> <<>>, forms |-> <<>>],
      [rows |-> <<TokenRow("1", "a", "u1")>>, forms |-> <<SearchForm>>],
      [rows |-> <<TokenRow("1", "a", "u1")>>, forms |-> <<SearchForm, NextForm>>],
      [rows |-> <<TokenRow("2", "b", "u2")>>, forms |-> <<SearchForm, NextForm>>] }

\* ... and to the second (query dogs): other urls, another token
SecondToken == Form(TRUE, TRUE, "/lite/", <<Hidden("nx", "r2")>>)

SecondPages ==
    { [rows |-> <<>>, forms |-> <<>>],
      [rows |-> <<TokenRow("1", "d", "w1")>>, forms |-> <<SearchForm>>],
      [rows |-> <<TokenRow("1", "d", "w1")>>, forms |-> <<SearchForm, SecondToken>>],
      [rows |-> <<TokenRow("2", "e", "w2")>>, forms |-> <<SearchForm, SecondToken>>] }

PairRequests == {ToolRequest("search", "object", JsString("cats"), JsNumber(2))}

InitPair == InitOver(PairRequests)

NextPair ==
    \/ CallTool
    \/ PostOk(FirstPages)
    \/ PostFail
    \/ CallSecond
    \/ PostOkSecond(SecondPages)
    \/ PostFailSecond

SpecPair == InitPair /\ [][NextPair]_vars

(***************************************************************************)
(* C20  Isolation of overlapping invocations.  Each of two invocations     *)
(* that interleave at their round trips sends the requests and ends with   *)
(* the outcome it would have alone against the responses it received; no   *)
(* url and no token of one shows in the other, also when one has finished  *)
(* before the other starts.                                                *)
(***************************************************************************)
\* the first invocation as a record of its locals and history
First ==
    [pc |-> pc, request |-> request, query |-> query, maxResults |-> maxResults,
     allResults |-> allResults, nextPageParams |-> nextPageParams,
     nextParams |-> nextParams, currentPage |-> currentPage, requests |-> requests,
     served |-> served, failedAt |-> failedAt, outcome |-> outcome]

RECURSIVE Replay(_, _, _, _)
Replay(im, inv, pages, i) ==
    IF i > Len(pages) THEN inv ELSE Replay(im, Answered(im, inv, pages[i]), pages, i + 1)

\* the invocation of inv.request run with no other, against the responses inv received
RunAlone(im, inv) ==
    IF inv.pc = "idle" THEN Idle(inv.request)
    ELSE LET answered == Replay(im, Entered(im, Idle(inv.request)), inv.served, 1)
         IN IF inv.failedAt > 0 THEN Failed(answered) ELSE answered

\* the urls and the field values an invocation holds, sent or returned
UrlsOf(inv) == ResultUrls(inv.allResults) \cup ResultUrls(inv.outcome.content)

SentValues(inv) ==
    UNION {{inv.requests[k][name] : name \in DOMAIN inv.requests[k]} :
               k \in 1..Len(inv.requests)}

C20_Isolation ==
    /\ First = RunAlone(impl, First)
    /\ second = RunAlone(impl, second)
    /\ UrlsOf(First) \cap {"w1", "w2"} = {}
    /\ UrlsOf(second) \cap {"u1", "u2"} = {}
    /\ SentValues(First) \cap {"dogs", "r2"} = {}
    /\ SentValues(second) \cap {"cats", "p2"} = {}

\* both invocations are suspended in their second request at once, each with
\* the url and the token of its own first page
C20_Witness ==
    /\ Paginating
    /\ pc = "await"
    /\ second.pc = "await"
    /\ Len(requests) = 2
    /\ Len(second.requests) = 2
    /\ "p2" \in SentValues(First)
    /\ "r2" \in SentValues(second)
    /\ UrlsOf(First) # {}
    /\ UrlsOf(second) # {}

====
